---------------------------- MODULE Spec2Model ----------------------------
(***************************************************************************)
(* Model of the dashboard's client-side state (src/static/js/dashboard.js): *)
(* the State object, the filter / sort / paginate pipeline of              *)
(* App.applyAllFilters, the pagination controls and the category filters   *)
(* persisted in localStorage.                                              *)
(*                                                                         *)
(* JavaScript values are represented as follows.                           *)
(*   - a string is a sequence of one-character strings;                    *)
(*   - a field that may be null/undefined is an option: << >> is the       *)
(*     missing value and <<v>> the present value v;                        *)
(*   - a protocol record has the fields slug, name, category, tvl, diff,   *)
(*     pct of section 3 of the specification (tvl is always a number,      *)
(*     diff and pct may be absent, name and category are strings or null). *)
(***************************************************************************)
EXTENDS Integers, Sequences, FiniteSets, TLC

(***************************************************************************)
(* Bounds of the model.                                                    *)
(***************************************************************************)
\* longest report payload assembled from the small record universe
MaxProtocols == 2

\* length of the long report payload (more than one page of records)
BigLen == 27

\* the longest list of snapshots GET /api/snapshots answers with
MaxSnapshots == 9

\* the number of runs of init, syncData and loadReport in a behaviour
MaxTasks == 2

(***************************************************************************)
(* Program constants.                                                      *)
(***************************************************************************)
ITEMS_PER_PAGE == 25

DEFAULT_CATEGORIES ==
    << <<"l","e","n","d","i","n","g">>,
       <<"d","e","x","e","s">>,
       <<"b","r","i","d","g","e">>,
       <<"l","i","q","u","i","d"," ","s","t","a","k","i","n","g">>,
       <<"c","d","p">>,
       <<"y","i","e","l","d">>,
       <<"s","e","r","v","i","c","e","s">>,
       <<"y","i","e","l","d"," ","a","g","g","r","e","g","a","t","o","r">>,
       <<"d","e","r","i","v","a","t","i","v","e","s">>,
       <<"r","w","a">> >>

\* the data-sort attributes of the sortable table headers
SortKeys == {"name", "category", "tvl", "diff", "pct"}

\* the sortable headers as the document has them: none has a sort class
NoSortClass == [key \in SortKeys |-> ""]

(***************************************************************************)
(* JavaScript values and built-ins.                                        *)
(***************************************************************************)
Null == << >>

Some(v) == <<v>>

Range(s) == {s[i] : i \in DOMAIN s}

Min(S) == CHOOSE x \in S : \A y \in S : x <= y

Max(S) == CHOOSE x \in S : \A y \in S : x >= y

Sign(n) == IF n < 0 THEN -1 ELSE IF n > 0 THEN 1 ELSE 0

UpperLetters ==
    <<"A","B","C","D","E","F","G","H","I","J","K","L","M",
      "N","O","P","Q","R","S","T","U","V","W","X","Y","Z">>

LowerLetters ==
    <<"a","b","c","d","e","f","g","h","i","j","k","l","m",
      "n","o","p","q","r","s","t","u","v","w","x","y","z">>

UpperSet == {UpperLetters[i] : i \in DOMAIN UpperLetters}

LowerSet == {LowerLetters[i] : i \in DOMAIN LowerLetters}

\* the lower-case letter of each upper-case letter
LowerOf ==
    [c \in UpperSet |->
        LowerLetters[CHOOSE i \in DOMAIN UpperLetters : UpperLetters[i] = c]]

\* the place of each letter in the alphabet
WeightOf ==
    [c \in LowerSet |-> CHOOSE i \in DOMAIN LowerLetters : LowerLetters[i] = c]

IsUpper(c) == c \in UpperSet

LowerChar(c) == IF c \in UpperSet THEN LowerOf[c] ELSE c

\* String.prototype.toLowerCase
ToLowerCase(s) == [i \in DOMAIN s |-> LowerChar(s[i])]

\* String.prototype.includes
Includes(s, t) ==
    \E i \in 0..(Len(s) - Len(t)) : SubSeq(s, i + 1, i + Len(t)) = t

\* truthiness of a string-or-null field: null, undefined and "" are falsy
Truthy(v) == v # Null /\ v[1] # << >>

\* lexicographic comparison of two sequences of integer weights
CmpWeights(u, v) ==
    LET n == IF Len(u) < Len(v) THEN Len(u) ELSE Len(v)
        diffs == {i \in 1..n : u[i] # v[i]}
    IN  IF diffs = {} THEN Sign(Len(u) - Len(v))
        ELSE IF u[Min(diffs)] < v[Min(diffs)] THEN -1 ELSE 1

\* primary collation weight: letters in alphabetical order whatever their
\* case, every other character before the letters
PrimaryWeight(c) ==
    IF LowerChar(c) \in LowerSet THEN WeightOf[LowerChar(c)] ELSE 0

\* tertiary collation weight: lower case before upper case
CaseWeight(c) == IF IsUpper(c) THEN 1 ELSE 0

\* String.prototype.localeCompare: the letters decide first, the case of the
\* letters breaks the tie; the result is -1, 0 or 1
LocaleCompare(x, y) ==
    LET p == CmpWeights([i \in DOMAIN x |-> PrimaryWeight(x[i])],
                        [i \in DOMAIN y |-> PrimaryWeight(y[i])])
    IN  IF p # 0 THEN p
        ELSE CmpWeights([i \in DOMAIN x |-> CaseWeight(x[i])],
                        [i \in DOMAIN y |-> CaseWeight(y[i])])


(***************************************************************************)
(* The sort comparator of applyAllFilters.                                 *)
(***************************************************************************)
\* the values the comparator works on: a string, a finite number or -Infinity
Str(s) == [type |-> "string", s |-> s, inf |-> 0, n |-> 0]

Num(n) == [type |-> "number", s |-> << >>, inf |-> 0, n |-> n]

NegInfinity == [type |-> "number", s |-> << >>, inf |-> -1, n |-> 0]

\* a[key]
Field(p, key) ==
    IF p[key] = Null THEN Null
    ELSE IF key \in {"name", "category"} THEN Some(Str(p[key][1]))
    ELSE Some(Num(p[key][1]))

\* a[key] || -Infinity : 0 and "" are replaced as well
ValOr(p, key) ==
    LET f == Field(p, key)
    IN  IF f = Null \/ f[1] = Num(0) \/ f[1] = Str(<< >>)
        THEN NegInfinity ELSE f[1]

\* a[key] ?? -Infinity : only null and undefined are replaced
Val(p, key) ==
    IF Field(p, key) = Null THEN NegInfinity ELSE Field(p, key)[1]

\* String(v) of a comparator value (name and category hold strings or null,
\* so the only number converted here is -Infinity)
StringOf(v) ==
    IF v.type = "string" THEN v.s
    ELSE <<"-","I","n","f","i","n","i","t","y">>

\* the sign of x - y, or "NaN": -Infinity - -Infinity and any subtraction
\* with a non-numeric string are NaN
Subtract(x, y) ==
    IF x.type = "string" \/ y.type = "string" THEN "NaN"
    ELSE IF x.inf = -1 /\ y.inf = -1 THEN "NaN"
    ELSE IF x.inf = -1 THEN "neg"
    ELSE IF y.inf = -1 THEN "pos"
    ELSE IF x.n < y.n THEN "neg"
    ELSE IF x.n > y.n THEN "pos"
    ELSE "zero"

SignClass(n) == IF n < 0 THEN "neg" ELSE IF n > 0 THEN "pos" ELSE "zero"

\* the comparator with the direction ignored
ComparatorAscOnly(a, b, key, order) ==
    LET valA == Val(a, key)
        valB == Val(b, key)
    IN  IF valA.type = "string"
        THEN SignClass(LocaleCompare(valA.s, StringOf(valB)))
        ELSE Subtract(valA, valB)

\* (a, b) => { ... } passed to sort: the sign of the returned number, or NaN
Comparator(a, b, key, order) ==
    LET valA == Val(a, key)
        valB == Val(b, key)
    IN  IF valA.type = "string"
        THEN IF order = "asc"
             THEN SignClass(LocaleCompare(valA.s, StringOf(valB)))
             ELSE SignClass(LocaleCompare(StringOf(valB), valA.s))
        ELSE IF order = "asc" THEN Subtract(valA, valB)
             ELSE Subtract(valB, valA)

\* an insertion step that puts x before the records that compare equal to it
InsertBeforeEqual(sorted, x, key, order) ==
    LET notAfter == {j \in 1..Len(sorted) :
                        Comparator(sorted[j], x, key, order) = "neg"}
        k == IF notAfter = {} THEN 0 ELSE Max(notAfter)
    IN  SubSeq(sorted, 1, k) \o <<x>> \o SubSeq(sorted, k + 1, Len(sorted))

\* Array.prototype.sort is stable and reads a NaN result as 0: x goes after
\* the last record that does not compare greater than x
Insert(sorted, x, key, order) ==
    LET notAfter == {j \in 1..Len(sorted) :
                        Comparator(sorted[j], x, key, order) # "pos"}
        k == IF notAfter = {} THEN 0 ELSE Max(notAfter)
    IN  SubSeq(sorted, 1, k) \o <<x>> \o SubSeq(sorted, k + 1, Len(sorted))

RECURSIVE SortPrefix(_, _, _, _)
SortPrefix(list, n, key, order) ==
    IF n = 0 THEN << >>
    ELSE Insert(SortPrefix(list, n - 1, key, order), list[n], key, order)

\* Array.prototype.sort with the comparator of applyAllFilters
Sort(list, key, order) == SortPrefix(list, Len(list), key, order)

(***************************************************************************)
(* The two filters of applyAllFilters.                                     *)
(***************************************************************************)
CategoryMatches(p, filters) ==
    Truthy(p.category) /\ ToLowerCase(p.category[1]) \in Range(filters)

NameMatches(p, searchTerm) ==
    Truthy(p.name) /\ Includes(ToLowerCase(p.name[1]), searchTerm)

\* the filter chain without the name filter
FilterCategoryOnly(all, filters, searchTerm) ==
    SelectSeq(all, LAMBDA p : CategoryMatches(p, filters))

\* the filter chain without the category filter
FilterNameOnly(all, filters, searchTerm) ==
    SelectSeq(all, LAMBDA p : NameMatches(p, searchTerm))

Filter(all, filters, searchTerm) ==
    SelectSeq(SelectSeq(all, LAMBDA p : CategoryMatches(p, filters)),
              LAMBDA p : NameMatches(p, searchTerm))

(***************************************************************************)
(* Pagination: renderAllProtocols and renderPagination.                    *)
(***************************************************************************)
\* Array.prototype.slice(start, end) for 0 <= start <= end
Slice(list, start, end) ==
    SubSeq(list, start + 1, IF end < Len(list) THEN end ELSE Len(list))

\* a page that ends one record early
PageItemsShort(list, page) ==
    Slice(list, (page - 1) * ITEMS_PER_PAGE,
          (page - 1) * ITEMS_PER_PAGE + ITEMS_PER_PAGE - 1)

\* pageItems of renderAllProtocols
PageItems(list, page) ==
    Slice(list, (page - 1) * ITEMS_PER_PAGE,
          (page - 1) * ITEMS_PER_PAGE + ITEMS_PER_PAGE)

\* Math.ceil(length / ITEMS_PER_PAGE)
TotalPages(length) == (length + ITEMS_PER_PAGE - 1) \div ITEMS_PER_PAGE

\* the page buttons with the "next" button never disabled
PageButtonsNextEnabled(length, page) ==
    IF TotalPages(length) <= 1 THEN {}
    ELSE (IF page = 1 THEN {} ELSE {page - 1})
         \cup {page + 1}
         \cup {p \in 1..TotalPages(length) :
                 p = 1 \/ p = TotalPages(length)
                 \/ (p - page <= 1 /\ page - p <= 1)}

\* the data-page values of the enabled .page-btn buttons that
\* renderPagination writes: previous, next and the visible page numbers
PageButtons(length, page) ==
    IF TotalPages(length) <= 1 THEN {}
    ELSE (IF page = 1 THEN {} ELSE {page - 1})
         \cup (IF page = TotalPages(length) THEN {} ELSE {page + 1})
         \cup {p \in 1..TotalPages(length) :
                 p = 1 \/ p = TotalPages(length)
                 \/ (p - page <= 1 /\ page - p <= 1)}

(***************************************************************************)
(* The Set of active filters and its JSON text in localStorage.            *)
(***************************************************************************)
\* new Set(array): the distinct elements in order of first occurrence
RECURSIVE NewSet(_)
NewSet(arr) ==
    IF arr = << >> THEN << >>
    ELSE LET front == NewSet(SubSeq(arr, 1, Len(arr) - 1))
         IN  IF arr[Len(arr)] \in Range(front) THEN front
             ELSE Append(front, arr[Len(arr)])

\* Set.prototype.add
SetAdd(set, x) == IF x \in Range(set) THEN set ELSE Append(set, x)

\* Set.prototype.delete
SetDelete(set, x) == SelectSeq(set, LAMBDA y : y # x)

Quote(s) == <<"\"">> \o s \o <<"\"">>

RECURSIVE JoinQuoted(_)
JoinQuoted(items) ==
    IF items = << >> THEN << >>
    ELSE IF Len(items) = 1 THEN Quote(items[1])
    ELSE Quote(items[1]) \o <<",">> \o JoinQuoted(Tail(items))

\* JSON.stringify of an array of strings (no character of a category needs
\* an escape)
Stringify(items) == <<"[">> \o JoinQuoted(items) \o <<"]">>

RECURSIVE ParseItems(_)
ParseItems(text) ==
    IF text = << >> THEN << >>
    ELSE IF text[1] = "," THEN ParseItems(Tail(text))
    ELSE LET close == Min({i \in 2..Len(text) : text[i] = "\""})
         IN  <<SubSeq(text, 2, close - 1)>>
             \o ParseItems(SubSeq(text, close + 1, Len(text)))

\* JSON.parse of the text of an array of strings
Parse(text) == ParseItems(SubSeq(text, 2, Len(text) - 1))

\* the initialiser with an empty stored array taken for "nothing stored"
InitialFiltersEmptyIsDefault(item) ==
    IF item = Null \/ Parse(item[1]) = << >> THEN NewSet(DEFAULT_CATEGORIES)
    ELSE NewSet(Parse(item[1]))

\* new Set(JSON.parse(localStorage.getItem('defillama_filters'))
\*         || DEFAULT_CATEGORIES): getItem gives null when nothing is
\* stored, JSON.parse(null) is null, and every array is truthy
InitialFilters(item) ==
    IF item = Null THEN NewSet(DEFAULT_CATEGORIES)
    ELSE NewSet(Parse(item[1]))

(***************************************************************************)
(* Report payloads: the allProtocols array of a GET /api/report response.  *)
(***************************************************************************)
Ab == <<"A","b">>

Dexes == <<"D","e","x","e","s">>

dexes == <<"d","e","x","e","s">>

gaming == <<"g","a","m","i","n","g">>

Lending == <<"L","e","n","d","i","n","g">>

lending == <<"l","e","n","d","i","n","g">>

Protocol(slug, name, category, tvl, diff, pct) ==
    [slug |-> slug, name |-> name, category |-> category,
     tvl |-> tvl, diff |-> diff, pct |-> pct]

\* a small universe of records: equal and distinct tvl, absent diff and
\* pct, zero and negative numbers, upper-case letters in name and category,
\* a record without category
Protocols ==
    { Protocol(1, Some(Ab),      Some(Dexes),   Some(2), Some(0), Some(-1)),
      Protocol(2, Some(<<"a">>), Some(dexes),   Some(2), Null,    Some(0)),
      Protocol(3, Some(<<"B">>), Some(Lending), Some(0), Null,    Null),
      Protocol(4, Some(<<"b">>), Null,          Some(1), Some(1), Null) }

\* arrays of distinct records of the small universe
SmallReports ==
    {s \in UNION {[1..n -> Protocols] : n \in 0..MaxProtocols} :
        \A i, j \in DOMAIN s : i # j => s[i] # s[j]}

\* records without a name or a category, absent or empty, and a complete one
IncompleteProtocols ==
    { Protocol(1, Some(Ab),      Some(Dexes),   Some(2), Some(0), Some(-1)),
      Protocol(2, Null,          Some(dexes),   Some(2), Null,    Some(0)),
      Protocol(3, Some(<< >>),   Some(Lending), Some(0), Null,    Null),
      Protocol(4, Some(<<"b">>), Null,          Some(1), Some(1), Null),
      Protocol(5, Some(<<"a">>), Some(<< >>),   Some(1), Some(1), Null) }

\* arrays of distinct records of that universe, in the order of their slugs
IncompleteReports ==
    {s \in UNION {[1..n -> IncompleteProtocols] : n \in 0..MaxProtocols} :
        \A i, j \in DOMAIN s : i < j => s[i].slug < s[j].slug}

\* a long payload of n records, for tables of more than one page: the first
\* record is in a category outside DEFAULT_CATEGORIES, the second has an
\* empty name
BigReport(n) ==
    [i \in 1..n |->
        Protocol(100 + i,
                 Some(IF i = 2 THEN << >> ELSE IF i % 3 = 0 THEN Ab ELSE <<"b">>),
                 Some(IF i = 1 THEN gaming ELSE dexes),
                 Some(i % 7),
                 IF i % 4 = 0 THEN Null ELSE Some(i - 10),
                 Some(((3 * i) % 5) - 2))]

BigReports == {BigReport(BigLen), BigReport(ITEMS_PER_PAGE)}

\* the payload of GET /api/report with the given allProtocols array; the
\* metadata names the payload
Report(list) == [reportMetadata |-> Len(list), allProtocols |-> list]

\* the texts a user types into the search input
SearchTexts == { << >>, <<"a">>, <<"A">> }

(***************************************************************************)
(* The API client: API.get and API.post on one settled fetch.              *)
(***************************************************************************)
\* the response statuses the backend answers with
Statuses == {200, 500}

\* the message of the TypeError a fetch rejects with on a network failure
FailedToFetch == "Failed to fetch"

\* a body that is not JSON text
NotJson == [json |-> FALSE, error |-> Null, message |-> Null, data |-> Null]

\* a body that is the JSON text of an object with the optional members
\* error and message, or of the value data when it has neither
Json(error, message, data) ==
    [json |-> TRUE, error |-> error, message |-> message, data |-> data]

\* a JSON value that is an array
Array(list) == [array |-> list]

\* fetch rejected: no response
NetworkError == [kind |-> "network", status |-> 0, body |-> NotJson]

Response(status, body) == [kind |-> "http", status |-> status, body |-> body]

\* response.ok
Ok(response) == response.status >= 200 /\ response.status <= 299

\* the fallback text `Blad serwera: ${response.status}` (the source spells
\* the first word with Polish letters)
ServerError(status) == "Blad serwera: " \o ToString(status)

\* new Error(text).message: the empty string when text is undefined
ErrorMessage(text) == IF text = Null THEN "" ELSE text[1]

\* `${text}` in a template literal
TemplateText(text) == IF text = Null THEN "undefined" ELSE text[1]

Toast(type, text) == [type |-> type, text |-> text]

\* the sun and moon icons as the document has them: both hidden
NoIcon == [sunHidden |-> TRUE, moonHidden |-> TRUE]

\* the icons after UI.applyTheme(theme)
Icons(theme) == [sunHidden |-> theme = "dark", moonHidden |-> theme # "dark"]

\* the toast element as the document has it: hidden, and no timer
HiddenToast == [hidden |-> TRUE, timer |-> FALSE, earlier |-> FALSE]

\* the toast element after n calls of UI.showToast: shown, with the timer of
\* the last call pending (timer) and, unless there was none, the timers of
\* calls before it (earlier)
showToast(el, n) ==
    IF n = 0 THEN el
    ELSE [hidden |-> FALSE, timer |-> TRUE,
          earlier |-> el.earlier \/ el.timer \/ n > 1]

\* the call returns value after showing toasts
Resolved(value, toasts) ==
    [result |-> "resolved", value |-> value, error |-> "", toasts |-> toasts]

\* the call rejects with an error of the given message after showing toasts
Rejected(error, toasts) ==
    [result |-> "rejected", value |-> Null, error |-> error, toasts |-> toasts]

\* the message of the SyntaxError response.json() rejects with
NotJsonError == "Unexpected token"

\* API.get that shows no toast for a response that is not ok
getSilent(response) ==
    IF response.kind = "network"
    THEN Rejected(FailedToFetch, <<Toast("error", FailedToFetch)>>)
    ELSE IF ~Ok(response)
    THEN Rejected(ServerError(response.status), << >>)
    ELSE IF response.body.json
    THEN Resolved(response.body.data, << >>)
    ELSE Rejected(NotJsonError, << >>)

\* API.get(url) from the point where fetch has settled with response.  The
\* promise of response.json() is returned, not awaited, so its rejection
\* passes by the catch block
get(response) ==
    IF response.kind = "network"
    THEN Rejected(FailedToFetch, <<Toast("error", FailedToFetch)>>)
    ELSE IF ~Ok(response)
    THEN LET text == IF response.body.json
                     THEN ErrorMessage(response.body.error)
                     ELSE ServerError(response.status)
         IN  Rejected(text, <<Toast("error", text)>>)
    ELSE IF response.body.json
    THEN Resolved(response.body.data, << >>)
    ELSE Rejected(NotJsonError, << >>)

\* API.post(url) from the point where fetch has settled with response
post(response) ==
    IF response.kind = "network"
    THEN Rejected(FailedToFetch, <<Toast("error", FailedToFetch)>>)
    ELSE IF ~Ok(response)
    THEN LET text == IF response.body.json
                     THEN ErrorMessage(response.body.message)
                     ELSE ServerError(response.status)
         IN  Rejected(text, <<Toast("error", text)>>)
    ELSE IF response.body.json
    THEN Resolved(Some(response.body),
                  <<Toast("success", TemplateText(response.body.message))>>)
    ELSE Rejected(NotJsonError, <<Toast("error", NotJsonError)>>)

(***************************************************************************)
(* The controls of the report form and the query built from them.          *)
(***************************************************************************)
Snapshot(filename) == [filename |-> filename]

\* n snapshot references, newest first
SnapshotList(n) == [i \in 1..n |-> Snapshot("f" \o ToString(i))]

\* the lists GET /api/snapshots answers with: none, one, and more than eight
SnapshotLists == {SnapshotList(n) : n \in {0, 1, MaxSnapshots}}

\* a renderSnapshotsSelect that selects the two indices the other way round
renderSnapshotsSelectSwapped(snapshots, selects) ==
    IF Len(snapshots) = 0 THEN selects
    ELSE [start |-> snapshots[1].filename,
          end   |-> snapshots[Min({7, Len(snapshots) - 1}) + 1].filename]

\* UI.renderSnapshotsSelect(snapshots): the values of the start and end
\* selects after it, given the values before it
renderSnapshotsSelect(snapshots, selects) ==
    IF Len(snapshots) = 0 THEN selects
    ELSE [start |-> snapshots[Min({7, Len(snapshots) - 1}) + 1].filename,
          end   |-> snapshots[1].filename]

\* URLSearchParams append
Append2(params, key, value) == Append(params, <<key, value>>)

\* a query with max_tvl always appended
ParamsAlwaysMax(ctl) ==
    Append2(<< <<"start_file", ctl.start>>, <<"end_file", ctl.end>>,
               <<"min_tvl", IF ctl.minTvl = "" THEN "0" ELSE ctl.minTvl>>,
               <<"top_n", ctl.topN>> >>, "max_tvl", ctl.maxTvl)

\* the URLSearchParams loadReport builds from the controls, as the list of
\* its pairs; toString() writes the pairs in this order
Params(ctl) ==
    LET params == << <<"start_file", ctl.start>>, <<"end_file", ctl.end>>,
                     <<"min_tvl", IF ctl.minTvl = "" THEN "0" ELSE ctl.minTvl>>,
                     <<"top_n", ctl.topN>> >>
    IN  IF ctl.maxTvl # "" THEN Append2(params, "max_tvl", ctl.maxTvl)
        ELSE params

\* the URLSearchParams downloadReport builds from the controls
DownloadParams(ctl) ==
    LET params == << <<"start_file", ctl.start>>, <<"end_file", ctl.end>>,
                     <<"min_tvl", IF ctl.minTvl = "" THEN "0" ELSE ctl.minTvl>>,
                     <<"top_n", ctl.topN>> >>
    IN  IF ctl.maxTvl # "" THEN Append2(params, "max_tvl", ctl.maxTvl)
        ELSE params

\* the controls as the document has them
InitialControls ==
    [start |-> "", end |-> "", minTvl |-> "100000", maxTvl |-> "",
     topN |-> "25"]

\* the tabs of the document
Tabs == {"report", "all", "settings"}

\* the values a user gives the min-TVL, max-TVL and top-N controls
MinTvlValues == {"", "100000"}

MaxTvlValues == {"", "5"}

TopNValues == {"25", ""}

(***************************************************************************)
(* State.                                                                  *)
(***************************************************************************)
VARIABLES
    allProtocols,       \* State.allProtocols
    filteredProtocols,  \* State.filteredProtocols
    categories,         \* State.categories
    activeFilters,      \* State.activeFilters, in insertion order
    currentPage,        \* State.currentPage
    sort,               \* State.sort
    searchInput,        \* Elements.searchInput.value
    sortable,           \* the sort class of each sortable table header
    storedFilters,      \* localStorage item 'defillama_filters'
    tableRows,          \* the rows renderAllProtocols wrote
    pageButtons,        \* the enabled page buttons renderPagination wrote
    checkboxes,         \* the category checkboxes and their checked state
    last,               \* history: whether the handler that last wrote the
                        \* table called applyAllFilters, and
                        \* State.currentPage before it
    reportData,         \* State.reportData
    reportDates,        \* what renderReport wrote: the metadata of a payload
    compareBtn,         \* Elements.compareBtn: disabled and textContent
    tasks,              \* the runs of init, syncData and loadReport in
                        \* flight: where each awaits, and history of what
                        \* it requested
    started,            \* history: number of runs started
    issued,             \* history: number of GET /api/report requests issued
    lastCall,           \* history: the API call that settled last
    newest,             \* history: among the report requests loadReport
                        \* took a payload from, the one issued last
    snapshots,          \* State.snapshots
    controls,           \* the values of the five controls of the report form
    statsKpi,           \* what renderGlobalStats wrote
    location,           \* window.location.href once downloadReport set it
    loading,            \* loader shown and app content hidden
    bound,              \* bindEvents has run
    syncBtn,            \* Elements.syncBtn: disabled
    toast,              \* Elements.toast: the toast showToast wrote last
    toastEl,            \* Elements.toast: whether it is hidden, and the timers of
                        \* showToast that have not fired
    dark,               \* the document has the class 'dark'
    icons,              \* whether #sunIcon and #moonIcon have the class 'hidden'
    storedTheme,        \* localStorage item 'theme'
    activeTab           \* the tab whose panel is shown

\* the table, the filters and what they are computed from
pageVars == <<allProtocols, filteredProtocols, categories, activeFilters,
              currentPage, sort, searchInput, storedFilters, tableRows,
              pageButtons, checkboxes, last, sortable>>

\* the report outside the table
reportVars == <<reportData, reportDates, compareBtn>>

\* the requests
requestVars == <<tasks, started, issued, lastCall, newest>>

\* the report form and the statistics
formVars == <<snapshots, controls, statsKpi, location>>

\* the rest of the document
chromeVars == <<loading, bound, syncBtn, toast, toastEl, dark, icons, storedTheme,
                activeTab>>

vars == <<pageVars, reportVars, requestVars, formVars, chromeVars>>

\* a run of op ("init", "syncData", "loadReport"): pc names the request it
\* awaits; fetched, query and order are history: the requests it has
\* issued, and the query and the number of its report request
Task(op) ==
    [op |-> op, pc |-> "start", fetched |-> << >>, query |-> << >>,
     order |-> 0]

\* tasks has a place for each run that can be in flight; a place is free
\* before a run starts in it and after the run has ended
Free == [Task("none") EXCEPT !.pc = "free"]

NoTasks == [t \in 1..MaxTasks |-> Free]

\* lastCall before any call has settled
NoCall ==
    [method |-> "none", endpoint |-> "none", response |-> NetworkError,
     outcome |-> Resolved(Null, << >>)]

\* the label of the compare button in the document and after loadReport
CompareLabel == "Generuj Raport"

\* the label of the compare button while loadReport runs
GeneratingLabel == "Generowanie..."

\* what localStorage holds when the page is opened: nothing on the first
\* visit, or the filters an earlier visit left
InitialStorage == {Null, Some(Stringify(<<dexes>>))}

\* the State object and the page as the script builds them
Init ==
    /\ storedFilters \in InitialStorage
    /\ allProtocols = << >>
    /\ filteredProtocols = << >>
    /\ categories = {}
    /\ activeFilters = InitialFilters(storedFilters)
    /\ currentPage = 1
    /\ sort = [key |-> "tvl", order |-> "desc"]
    /\ searchInput = << >>
    /\ sortable = NoSortClass
    /\ tableRows = << >>
    /\ pageButtons = {}
    /\ checkboxes = << >>
    /\ last = [applied |-> FALSE, page |-> 1]
    /\ reportData = Null
    /\ reportDates = Null
    /\ compareBtn = [disabled |-> FALSE, label |-> CompareLabel]
    /\ tasks = NoTasks
    /\ started = 0
    /\ issued = 0
    /\ lastCall = NoCall
    /\ newest = [order |-> 0, data |-> Null]
    /\ snapshots = << >>
    /\ controls = InitialControls
    /\ statsKpi = Null
    /\ location = Null
    /\ loading = TRUE
    /\ bound = FALSE
    /\ syncBtn = [disabled |-> FALSE]
    /\ toast = Null
    /\ toastEl = HiddenToast
    /\ dark = FALSE
    /\ icons = NoIcon
    /\ storedTheme = Null
    /\ activeTab = "report"

(***************************************************************************)
(* Handlers.                                                               *)
(***************************************************************************)
\* applyAllFilters that keeps the current page
applyAllFiltersKeepPage(all, filters, srt, searchTerm) ==
    /\ filteredProtocols' = Sort(Filter(all, filters, searchTerm),
                                 srt.key, srt.order)
    /\ currentPage' = currentPage
    /\ tableRows' = PageItems(filteredProtocols', currentPage')
    /\ pageButtons' = PageButtons(Len(filteredProtocols'), currentPage')
    /\ last' = [applied |-> TRUE, page |-> currentPage]

\* App.applyAllFilters(searchTerm) on the given values of State.allProtocols,
\* State.activeFilters and State.sort, with the two renders it ends with
applyAllFilters(all, filters, srt, searchTerm) ==
    /\ filteredProtocols' = Sort(Filter(all, filters, searchTerm),
                                 srt.key, srt.order)
    /\ currentPage' = 1
    /\ tableRows' = PageItems(filteredProtocols', currentPage')
    /\ pageButtons' = PageButtons(Len(filteredProtocols'), currentPage')
    /\ last' = [applied |-> TRUE, page |-> currentPage]

\* the default value of the searchTerm parameter of applyAllFilters
DefaultSearchTerm == ToLowerCase(searchInput)

\* a loadReport that replaces State.categories by the categories of the
\* payload
loadReportNewCategories(data) ==
    /\ reportData' = Some(data)
    /\ allProtocols' = data.allProtocols
    /\ categories' =
           {ToLowerCase(data.allProtocols[i].category[1]) :
               i \in {j \in DOMAIN data.allProtocols :
                         Truthy(data.allProtocols[j].category)}}
    /\ applyAllFilters(data.allProtocols, activeFilters, sort,
                       DefaultSearchTerm)
    /\ reportDates' = Some(data.reportMetadata)
    /\ checkboxes' = [c \in categories' |-> c \in Range(activeFilters)]
    /\ compareBtn' = [disabled |-> FALSE, label |-> CompareLabel]
    /\ UNCHANGED <<activeFilters, sort, searchInput, storedFilters, sortable>>

\* App.loadReport from the point where GET /api/report has resolved with
\* the payload data, to its end
loadReport(data) ==
    /\ reportData' = Some(data)
    /\ allProtocols' = data.allProtocols
    /\ categories' = categories \cup
           {ToLowerCase(data.allProtocols[i].category[1]) :
               i \in {j \in DOMAIN data.allProtocols :
                         Truthy(data.allProtocols[j].category)}}
    /\ applyAllFilters(data.allProtocols, activeFilters, sort,
                       DefaultSearchTerm)
    /\ reportDates' = Some(data.reportMetadata)
    /\ checkboxes' = [c \in categories' |-> c \in Range(activeFilters)]
    /\ compareBtn' = [disabled |-> FALSE, label |-> CompareLabel]
    /\ UNCHANGED <<activeFilters, sort, searchInput, storedFilters, sortable>>

\* change event of a category checkbox, and App.updateCategoryFilter
updateCategoryFilter(category, isChecked) ==
    /\ checkboxes' = [checkboxes EXCEPT ![category] = isChecked]
    /\ activeFilters' = IF isChecked THEN SetAdd(activeFilters, category)
                        ELSE SetDelete(activeFilters, category)
    /\ storedFilters' = Some(Stringify(activeFilters'))
    /\ applyAllFilters(allProtocols, activeFilters', sort, DefaultSearchTerm)
    /\ UNCHANGED <<allProtocols, categories, sort, searchInput, sortable>>

\* input event of the search input, and App.filterProtocols(e.target.value)
filterProtocols(value) ==
    /\ searchInput' = value
    /\ applyAllFilters(allProtocols, activeFilters, sort, value)
    /\ UNCHANGED <<allProtocols, categories, activeFilters, sort,
                   storedFilters, checkboxes, sortable>>

\* UI.updateSortUI(): the sort class of each sortable header after it
updateSortUI(srt) ==
    [key \in SortKeys |->
        IF key = srt.key
        THEN (IF srt.order = "asc" THEN "sort-asc" ELSE "sort-desc")
        ELSE ""]

\* the value sortProtocols(key) gives State.sort
NextSort(srt, key) ==
    IF srt.key = key
    THEN [srt EXCEPT !.order = IF srt.order = "asc" THEN "desc" ELSE "asc"]
    ELSE [key |-> key, order |-> "desc"]

\* click on a sortable header, and App.sortProtocols(key)
sortProtocols(key) ==
    /\ sort' = NextSort(sort, key)
    /\ applyAllFilters(allProtocols, activeFilters, sort', DefaultSearchTerm)
    /\ sortable' = updateSortUI(sort')
    /\ UNCHANGED <<allProtocols, categories, activeFilters, searchInput,
                   storedFilters, checkboxes>>

\* a page click that shows the records in the order of the payload
pageClickUnsorted(page) ==
    /\ currentPage' = page
    /\ filteredProtocols' =
           Filter(allProtocols, activeFilters, DefaultSearchTerm)
    /\ tableRows' = PageItems(filteredProtocols', currentPage')
    /\ pageButtons' = PageButtons(Len(filteredProtocols'), currentPage')
    /\ last' = [applied |-> FALSE, page |-> currentPage]
    /\ UNCHANGED <<allProtocols, categories, activeFilters,
                   sort, searchInput, storedFilters, checkboxes, sortable>>

\* click on an enabled page button of the pagination controls
pageClick(page) ==
    /\ currentPage' = page
    /\ tableRows' = PageItems(filteredProtocols, currentPage')
    /\ pageButtons' = PageButtons(Len(filteredProtocols), currentPage')
    /\ last' = [applied |-> FALSE, page |-> currentPage]
    /\ UNCHANGED <<allProtocols, filteredProtocols, categories, activeFilters,
                   sort, searchInput, storedFilters, checkboxes, sortable>>

\* the page is loaded again: the script builds State anew from what
\* localStorage holds, and the document is the initial one
reload ==
    /\ allProtocols' = << >>
    /\ filteredProtocols' = << >>
    /\ categories' = {}
    /\ activeFilters' = InitialFilters(storedFilters)
    /\ currentPage' = 1
    /\ sort' = [key |-> "tvl", order |-> "desc"]
    /\ searchInput' = << >>
    /\ sortable' = NoSortClass
    /\ tableRows' = << >>
    /\ pageButtons' = {}
    /\ checkboxes' = << >>
    /\ last' = [applied |-> FALSE, page |-> 1]
    /\ reportData' = Null
    /\ reportDates' = Null
    /\ compareBtn' = [disabled |-> FALSE, label |-> CompareLabel]
    /\ tasks' = NoTasks
    /\ started' = 0
    /\ issued' = 0
    /\ lastCall' = NoCall
    /\ newest' = [order |-> 0, data |-> Null]
    /\ snapshots' = << >>
    /\ controls' = InitialControls
    /\ statsKpi' = Null
    /\ location' = Null
    /\ loading' = TRUE
    /\ bound' = FALSE
    /\ syncBtn' = [disabled |-> FALSE]
    /\ toast' = Null
    /\ toastEl' = HiddenToast
    /\ dark' = FALSE
    /\ icons' = NoIcon
    /\ activeTab' = "report"
    /\ UNCHANGED <<storedFilters, storedTheme>>

\* a report arrives and loadReport runs to its end
LoadReport ==
    /\ \E list \in SmallReports : loadReport(Report(list))
    /\ UNCHANGED <<requestVars, formVars, chromeVars>>

CategoryChange ==
    /\ \E category \in DOMAIN checkboxes :
           updateCategoryFilter(category, ~checkboxes[category])
    /\ UNCHANGED <<reportVars, requestVars, formVars, chromeVars>>

SearchInput ==
    /\ \E value \in SearchTexts : filterProtocols(value)
    /\ UNCHANGED <<reportVars, requestVars, formVars, chromeVars>>

SortClick ==
    /\ \E key \in SortKeys : sortProtocols(key)
    /\ UNCHANGED <<reportVars, requestVars, formVars, chromeVars>>

PageClick ==
    /\ \E page \in pageButtons : pageClick(page)
    /\ UNCHANGED <<reportVars, requestVars, formVars, chromeVars>>

Reload == reload

\* reports of at most MaxProtocols records: the table has a single page and
\* renderPagination writes no button
Next ==
    \/ LoadReport
    \/ CategoryChange
    \/ SearchInput
    \/ SortClick
    \/ Reload

Spec == Init /\ [][Next]_vars

\* the same page, never loaded anew
NextLoads ==
    \/ LoadReport
    \/ CategoryChange
    \/ SearchInput
    \/ SortClick

SpecLoads == Init /\ [][NextLoads]_vars

\* reports with records that lack a name or a category
LoadIncompleteReport ==
    /\ \E list \in IncompleteReports : loadReport(Report(list))
    /\ UNCHANGED <<requestVars, formVars, chromeVars>>

NextIncomplete ==
    \/ LoadIncompleteReport
    \/ CategoryChange
    \/ SearchInput
    \/ SortClick

SpecIncomplete == Init /\ [][NextIncomplete]_vars

\* long reports: the table has several pages
LoadBigReport ==
    /\ \E list \in BigReports : loadReport(Report(list))
    /\ UNCHANGED <<requestVars, formVars, chromeVars>>

NextPages ==
    \/ LoadBigReport
    \/ CategoryChange
    \/ SearchInput
    \/ SortClick
    \/ PageClick
    \/ Reload

SpecPages == Init /\ [][NextPages]_vars

(***************************************************************************)
(* Requests: init, syncData and loadReport as runs that await one fetch    *)
(* at a time.  What a run does between two awaits is one step: the         *)
(* continuations run as microtasks, and no event or response is handled    *)
(* in between.                                                             *)
(***************************************************************************)
\* the run ends: it returns ("done") or throws ("failed")
Finish(task, how) == Free

\* a run starts in the first free place
Start(ts, task) ==
    [ts EXCEPT ![CHOOSE t \in DOMAIN ts :
                     /\ ts[t] = Free
                     /\ \A u \in DOMAIN ts : u < t => ts[u] # Free] = task]

\* the run issues a fetch of the endpoint and awaits it
Request(task, endpoint) ==
    [task EXCEPT !.pc = endpoint, !.fetched = Append(@, endpoint)]

\* the run issues GET /api/report with the query built from the controls
ReportRequest(task, ctl, n) ==
    [Request(task, "report") EXCEPT !.query = Params(ctl), !.order = n]

\* error bodies: text that is not JSON, and an object with an error and a
\* message member
ErrorBodies == {NotJson, Json(Some("boom"), Some("bam"), Null)}

Stats == [totalTVL |-> 100, change24h |-> 0, protocolCount |-> 2]

\* the report payloads of the request model
ApiReports ==
    {Report(<<Protocol(1, Some(Ab), Some(Dexes), Some(2), Some(0), Some(-1))>>),
     Report(<<Protocol(2, Some(<<"a">>), Some(dexes), Some(2), Null, Some(0)),
              Protocol(3, Some(<<"B">>), Some(Lending), Some(0), Null, Null)>>)}

\* the bodies of a 2xx answer of an endpoint; GET /api/report may answer
\* with the JSON text null
OkBodies(endpoint) ==
    CASE endpoint = "sync" -> {Json(Null, Some("synced"), Null)}
      [] endpoint = "snapshots" ->
             {Json(Null, Null, Some(Array(list))) : list \in SnapshotLists}
      [] endpoint = "stats" -> {Json(Null, Null, Some(Stats))}
      [] endpoint = "report" ->
             {Json(Null, Null, Null)}
                 \cup {Json(Null, Null, Some(data)) : data \in ApiReports}

\* the ways a fetch of an endpoint settles
Responses(endpoint) ==
    {NetworkError}
        \cup {Response(status, body) :
                 status \in {st \in Statuses : st >= 300}, body \in ErrorBodies}
        \cup {Response(status, body) :
                 status \in {st \in Statuses : st < 300},
                 body \in OkBodies(endpoint) \cup {NotJson}}

\* Elements.toast after the toasts of a call
ShowToasts(toasts) ==
    IF toasts = << >> THEN toast ELSE Some(toasts[Len(toasts)])

\* the toast of init when there is no snapshot (Polish letters left out)
NoDataText == "Nie znaleziono danych. Kliknij 'Synchronizuj', aby pobrac."

\* the toasts of downloadReport (Polish letters left out)
SelectDatesText == "Prosze najpierw wybrac date poczatkowa i koncowa."

DownloadText == "Pobieranie raportu rozpocznie sie za chwile."

\* App.init up to its first await: theme, loader, handlers, GET
\* /api/snapshots
init ==
    /\ ~bound
    /\ dark' = (IF storedTheme = Null THEN TRUE ELSE storedTheme[1] = "dark")
    /\ icons' = Icons(IF storedTheme = Null THEN "dark" ELSE storedTheme[1])
    /\ loading' = TRUE
    /\ bound' = TRUE
    /\ tasks' = Start(tasks, Request(Task("init"), "snapshots"))
    /\ started' = started + 1
    /\ UNCHANGED <<pageVars, reportVars, issued, lastCall, newest, formVars, syncBtn,
                   toast, toastEl, storedTheme, activeTab>>

\* click on the sync button: App.syncData up to the await in API.post
syncData ==
    /\ bound
    /\ ~syncBtn.disabled
    /\ started < MaxTasks
    /\ started' = started + 1
    /\ syncBtn' = [disabled |-> TRUE]
    /\ tasks' = Start(tasks, Request(Task("syncData"), "sync"))
    /\ UNCHANGED <<pageVars, reportVars, issued, lastCall, newest, formVars, loading,
                   bound, toast, toastEl, dark, icons, storedTheme, activeTab>>

\* click on the compare button: App.loadReport up to its await
compareClick ==
    /\ bound
    /\ ~loading
    /\ ~compareBtn.disabled
    /\ started < MaxTasks
    /\ started' = started + 1
    /\ compareBtn' = [disabled |-> TRUE, label |-> GeneratingLabel]
    /\ issued' = issued + 1
    /\ tasks' = Start(tasks,
                      ReportRequest(Task("loadReport"), controls, issued + 1))
    /\ UNCHANGED <<pageVars, reportData, reportDates, lastCall, newest, formVars,
                   chromeVars>>

\* settleSync that issues POST /api/sync again when the call failed
settleSyncRetry(t, response) ==
    LET out == post(response)
    IN  /\ syncBtn' = [disabled |-> out.result = "rejected"]
        /\ toast' = ShowToasts(out.toasts)
        /\ toastEl' = showToast(toastEl, Len(out.toasts))
        /\ lastCall' = [method |-> "POST", endpoint |-> "sync",
                        response |-> response, outcome |-> out]
        /\ tasks' = [tasks EXCEPT ![t] =
                        IF out.result = "resolved"
                        THEN Request(@, "snapshots")
                        ELSE IF Len(@.fetched) < 2 THEN Request(@, "sync")
                        ELSE Finish(@, "failed")]
        /\ UNCHANGED <<pageVars, reportVars, started, issued, newest, formVars, loading,
                       bound,
                       dark, icons, storedTheme, activeTab>>

\* settleSync that goes on to GET /api/snapshots when the call failed
settleSyncContinue(t, response) ==
    LET out == post(response)
    IN  /\ syncBtn' = [disabled |-> FALSE]
        /\ toast' = ShowToasts(out.toasts)
        /\ toastEl' = showToast(toastEl, Len(out.toasts))
        /\ lastCall' = [method |-> "POST", endpoint |-> "sync",
                        response |-> response, outcome |-> out]
        /\ tasks' = [tasks EXCEPT ![t] = Request(@, "snapshots")]
        /\ UNCHANGED <<pageVars, reportVars, started, issued, newest, formVars, loading,
                       bound,
                       dark, icons, storedTheme, activeTab>>

\* the fetch of API.post('/api/sync') of run t settles: the rest of
\* API.post, and syncData up to its next await
settleSync(t, response) ==
    LET out == post(response)
    IN  /\ syncBtn' = [disabled |-> FALSE]
        /\ toast' = ShowToasts(out.toasts)
        /\ toastEl' = showToast(toastEl, Len(out.toasts))
        /\ lastCall' = [method |-> "POST", endpoint |-> "sync",
                        response |-> response, outcome |-> out]
        /\ tasks' = [tasks EXCEPT ![t] =
                        IF out.result = "resolved"
                        THEN Request(@, "snapshots")
                        ELSE Finish(@, "failed")]
        /\ UNCHANGED <<pageVars, reportVars, started, issued, newest, formVars, loading,
                       bound,
                       dark, icons, storedTheme, activeTab>>

\* the fetch of API.get('/api/snapshots') of run t settles: the rest of
\* API.get, and init or syncData up to the next await or to the end
settleSnapshots(t, response) ==
    LET out == get(response)
        isInit == tasks[t].op = "init"
    IN  /\ lastCall' = [method |-> "GET", endpoint |-> "snapshots",
                        response |-> response, outcome |-> out]
        /\ IF out.result = "resolved"
           THEN LET list == out.value[1].array
                IN  /\ snapshots' = list
                    /\ controls' =
                           [controls EXCEPT
                               !.start = renderSnapshotsSelect(
                                   list, [start |-> controls.start,
                                          end |-> controls.end]).start,
                               !.end = renderSnapshotsSelect(
                                   list, [start |-> controls.start,
                                          end |-> controls.end]).end]
                    /\ IF isInit /\ Len(list) = 0
                       THEN /\ toast' = Some(Toast("error", NoDataText))
                            /\ toastEl' = showToast(toastEl, 1)
                            /\ loading' = FALSE
                            /\ tasks' = [tasks EXCEPT ![t] = Finish(@, "done")]
                       ELSE /\ tasks' = [tasks EXCEPT ![t] =
                                            Request(@, "stats")]
                            /\ UNCHANGED <<toast, toastEl, loading>>
           ELSE /\ toast' = ShowToasts(out.toasts)
                /\ toastEl' = showToast(toastEl, Len(out.toasts))
                /\ loading' = (IF isInit THEN FALSE ELSE loading)
                /\ tasks' = [tasks EXCEPT ![t] = Finish(@, "failed")]
                /\ UNCHANGED <<snapshots, controls>>
        /\ UNCHANGED <<pageVars, reportVars, started, issued, newest, statsKpi,
                       location, bound,
                       syncBtn, dark, icons, storedTheme, activeTab>>

\* settleStats with setLoading(false) at the end of the try block of init
\* instead of its finally block
settleStatsNoFinally(t, response) ==
    LET out == get(response)
    IN  /\ lastCall' = [method |-> "GET", endpoint |-> "stats",
                        response |-> response, outcome |-> out]
        /\ toast' = ShowToasts(out.toasts)
        /\ toastEl' = showToast(toastEl, Len(out.toasts))
        /\ IF out.result = "resolved"
           THEN /\ statsKpi' = out.value
                /\ compareBtn' = [disabled |-> TRUE, label |-> GeneratingLabel]
                /\ issued' = issued + 1
                /\ tasks' = [tasks EXCEPT ![t] =
                                ReportRequest(@, controls, issued + 1)]
           ELSE /\ tasks' = [tasks EXCEPT ![t] = Finish(@, "failed")]
                /\ UNCHANGED <<statsKpi, compareBtn, issued>>
        /\ UNCHANGED <<pageVars, reportData, reportDates, started, newest, snapshots,
                       controls, location, loading, bound, syncBtn, dark, icons, storedTheme,
                       activeTab>>

\* the fetch of API.get('/api/stats') of run t settles: the rest of API.get
\* and of loadStats, and loadReport up to its await
settleStats(t, response) ==
    LET out == get(response)
    IN  /\ lastCall' = [method |-> "GET", endpoint |-> "stats",
                        response |-> response, outcome |-> out]
        /\ toast' = ShowToasts(out.toasts)
        /\ toastEl' = showToast(toastEl, Len(out.toasts))
        /\ IF out.result = "resolved"
           THEN /\ statsKpi' = out.value
                /\ compareBtn' = [disabled |-> TRUE, label |-> GeneratingLabel]
                /\ issued' = issued + 1
                /\ tasks' = [tasks EXCEPT ![t] =
                                ReportRequest(@, controls, issued + 1)]
                /\ UNCHANGED loading
           ELSE /\ loading' = (IF tasks[t].op = "init" THEN FALSE ELSE loading)
                /\ tasks' = [tasks EXCEPT ![t] = Finish(@, "failed")]
                /\ UNCHANGED <<statsKpi, compareBtn, issued>>
        /\ UNCHANGED <<pageVars, reportData, reportDates, started, newest, snapshots,
                       controls, location, bound, syncBtn, dark, icons, storedTheme, activeTab>>

\* settleReport with State.reportData = data moved before the test of data
settleReportStoresFirst(t, response) ==
    LET out == get(response)
    IN  /\ lastCall' = [method |-> "GET", endpoint |-> "report",
                        response |-> response, outcome |-> out]
        /\ toast' = ShowToasts(out.toasts)
        /\ toastEl' = showToast(toastEl, Len(out.toasts))
        /\ loading' = (IF tasks[t].op = "init" THEN FALSE ELSE loading)
        /\ IF out.result = "resolved" /\ out.value # Null
           THEN /\ loadReport(out.value[1])
                /\ tasks' = [tasks EXCEPT ![t] = Finish(@, "done")]
                /\ newest' = (IF tasks[t].order > newest.order
                              THEN [order |-> tasks[t].order,
                                    data |-> out.value]
                              ELSE newest)
           ELSE /\ compareBtn' = [disabled |-> FALSE, label |-> CompareLabel]
                /\ tasks' = [tasks EXCEPT ![t] =
                                Finish(@, IF out.result = "resolved" THEN "done"
                                          ELSE "failed")]
                /\ UNCHANGED newest
                /\ reportData' = (IF out.result = "resolved" THEN Null
                                  ELSE reportData)
                /\ UNCHANGED <<pageVars, reportDates>>
        /\ UNCHANGED <<started, issued, formVars, bound, syncBtn, dark, icons, storedTheme,
                       activeTab>>

\* the fetch of API.get('/api/report?...') of run t settles: the rest of
\* API.get and of loadReport, and the end of init
settleReport(t, response) ==
    LET out == get(response)
    IN  /\ lastCall' = [method |-> "GET", endpoint |-> "report",
                        response |-> response, outcome |-> out]
        /\ toast' = ShowToasts(out.toasts)
        /\ toastEl' = showToast(toastEl, Len(out.toasts))
        /\ loading' = (IF tasks[t].op = "init" THEN FALSE ELSE loading)
        /\ IF out.result = "resolved" /\ out.value # Null
           THEN /\ loadReport(out.value[1])
                /\ tasks' = [tasks EXCEPT ![t] = Finish(@, "done")]
                /\ newest' = (IF tasks[t].order > newest.order
                              THEN [order |-> tasks[t].order,
                                    data |-> out.value]
                              ELSE newest)
           ELSE /\ compareBtn' = [disabled |-> FALSE, label |-> CompareLabel]
                /\ tasks' = [tasks EXCEPT ![t] =
                                Finish(@, IF out.result = "resolved" THEN "done"
                                          ELSE "failed")]
                /\ UNCHANGED newest
                /\ UNCHANGED <<pageVars, reportData, reportDates>>
        /\ UNCHANGED <<started, issued, formVars, bound, syncBtn, dark, icons, storedTheme,
                       activeTab>>

\* click on the download button
downloadReport ==
    /\ bound
    /\ ~loading
    /\ IF controls.start = "" \/ controls.end = ""
       THEN /\ toast' = Some(Toast("error", SelectDatesText))
            /\ toastEl' = showToast(toastEl, 1)
            /\ UNCHANGED location
       ELSE /\ location' = Some([path |-> "/api/report/download",
                                 query |-> DownloadParams(controls)])
            /\ toast' = Some(Toast("success", DownloadText))
            /\ toastEl' = showToast(toastEl, 1)
    /\ UNCHANGED <<pageVars, reportVars, requestVars, snapshots, controls,
                   statsKpi, loading, bound, syncBtn, dark, icons, storedTheme,
                   activeTab>>

\* the user gives a control of the report form a value
controlInput(field, value) ==
    /\ ~loading
    /\ controls' = [controls EXCEPT ![field] = value]
    /\ UNCHANGED <<pageVars, reportVars, requestVars, snapshots, statsKpi,
                   location, chromeVars>>

\* a theme listener that stores the theme it switches from
themeClickStoresOld ==
    /\ bound
    /\ LET newTheme == IF dark THEN "light" ELSE "dark"
       IN  /\ storedTheme' = Some(IF dark THEN "dark" ELSE "light")
           /\ dark' = (newTheme = "dark")
           /\ icons' = Icons(newTheme)
    /\ UNCHANGED <<pageVars, reportVars, requestVars, formVars, loading,
                   bound, syncBtn, toast, toastEl, activeTab>>

\* click on the theme button: the listener initTheme adds
themeClick ==
    /\ bound
    /\ LET newTheme == IF dark THEN "light" ELSE "dark"
       IN  /\ storedTheme' = Some(newTheme)
           /\ dark' = (newTheme = "dark")
           /\ icons' = Icons(newTheme)
    /\ UNCHANGED <<pageVars, reportVars, requestVars, formVars, loading,
                   bound, syncBtn, toast, toastEl, activeTab>>

\* a switchTab that also drops the category filters of the state
switchTabClearsFilters(tabId) ==
    /\ bound
    /\ ~loading
    /\ activeTab' = tabId
    /\ activeFilters' = << >>
    /\ UNCHANGED <<allProtocols, filteredProtocols, categories, currentPage,
                   sort, searchInput, storedFilters, tableRows, pageButtons,
                   checkboxes, last, sortable>>
    /\ UNCHANGED <<reportVars, requestVars, formVars, loading,
                   bound, syncBtn, toast, toastEl, dark, icons, storedTheme>>

\* click on a tab button
switchTab(tabId) ==
    /\ bound
    /\ ~loading
    /\ activeTab' = tabId
    /\ UNCHANGED <<pageVars, reportVars, requestVars, formVars, loading,
                   bound, syncBtn, toast, toastEl, dark, icons, storedTheme>>

AppInit == init

SyncClick == syncData

CompareClick == compareClick

SettleSync ==
    \E t \in DOMAIN tasks : \E response \in Responses("sync") :
        tasks[t].pc = "sync" /\ settleSync(t, response)

SettleSnapshots ==
    \E t \in DOMAIN tasks : \E response \in Responses("snapshots") :
        tasks[t].pc = "snapshots" /\ settleSnapshots(t, response)

SettleStats ==
    \E t \in DOMAIN tasks : \E response \in Responses("stats") :
        tasks[t].pc = "stats" /\ settleStats(t, response)

SettleReport ==
    \E t \in DOMAIN tasks : \E response \in Responses("report") :
        tasks[t].pc = "report" /\ settleReport(t, response)

\* the page with its requests: init, and the sync and compare buttons
NextApi ==
    \/ AppInit
    \/ SyncClick
    \/ CompareClick
    \/ SettleSync
    \/ SettleSnapshots
    \/ SettleStats
    \/ SettleReport

SpecApi == Init /\ [][NextApi]_vars

\* the request the run at place t awaits settles
Settle(t) ==
    \/ \E response \in Responses("sync") :
           tasks[t].pc = "sync" /\ settleSync(t, response)
    \/ \E response \in Responses("snapshots") :
           tasks[t].pc = "snapshots" /\ settleSnapshots(t, response)
    \/ \E response \in Responses("stats") :
           tasks[t].pc = "stats" /\ settleStats(t, response)
    \/ \E response \in Responses("report") :
           tasks[t].pc = "report" /\ settleReport(t, response)

\* the script calls App.init(), and every request settles in the end
SpecApiFair ==
    /\ SpecApi
    /\ WF_vars(AppInit)
    /\ \A t \in 1..MaxTasks : WF_vars(Settle(t))

\* no run awaits a request
Settled == tasks = NoTasks

\* a patient user, who acts only while no request is in flight, and on
\* what the document shows: the search input and the table headers are in
\* the panel of the tab "all", the category checkboxes in the panel of the
\* tab "settings"
Shown(tabId) == bound /\ ~loading /\ Settled /\ activeTab = tabId

TabClick == Settled /\ \E tabId \in Tabs : switchTab(tabId)

UserSearch == Shown("all") /\ SearchInput

\* the table headers the user of the frame clicks
UserKeys == {"name", "tvl"}

UserSort ==
    /\ Shown("all")
    /\ \E key \in UserKeys : sortProtocols(key)
    /\ UNCHANGED <<reportVars, requestVars, formVars, chromeVars>>

UserCategory == Shown("settings") /\ CategoryChange

PatientSync == Settled /\ SyncClick

PatientCompare == Settled /\ CompareClick

PatientTheme == Settled /\ themeClick

DownloadClick == downloadReport

\* a timer of showToast fires, 4000 ms after the call: timers fire in the
\* order of the calls, so one of an earlier call fires before the one of
\* the last call, and other earlier ones may remain after it
TimerFires ==
    /\ toastEl.timer \/ toastEl.earlier
    /\ \/ /\ toastEl.earlier
          /\ \E more \in BOOLEAN :
                 toastEl' = [toastEl EXCEPT !.hidden = TRUE, !.earlier = more]
       \/ /\ ~toastEl.earlier
          /\ toastEl' = [toastEl EXCEPT !.hidden = TRUE, !.timer = FALSE]
    /\ UNCHANGED <<pageVars, reportVars, requestVars, formVars, loading,
                   bound, syncBtn, toast, dark, icons, storedTheme, activeTab>>

\* the user edits the min-TVL, max-TVL and top-N controls of the report form
ControlInput ==
    \/ \E value \in MinTvlValues : controlInput("minTvl", value)
    \/ \E value \in MaxTvlValues : controlInput("maxTvl", value)
    \/ \E value \in TopNValues : controlInput("topN", value)

\* a backend that answers every request either well, with one payload per
\* endpoint (GET /api/report with one of two), or not at all
PlainResponses(endpoint) ==
    {NetworkError}
        \cup {Response(200, body) :
                 body \in OkBodies(endpoint)
                     \ {Json(Null, Null, Null),
                        Json(Null, Null, Some(Array(SnapshotList(0)))),
                        Json(Null, Null, Some(Array(SnapshotList(1))))}}

PlainSync ==
    \E t \in DOMAIN tasks : \E response \in PlainResponses("sync") :
        tasks[t].pc = "sync" /\ settleSync(t, response)

PlainSnapshots ==
    \E t \in DOMAIN tasks : \E response \in PlainResponses("snapshots") :
        tasks[t].pc = "snapshots" /\ settleSnapshots(t, response)

PlainStats ==
    \E t \in DOMAIN tasks : \E response \in PlainResponses("stats") :
        tasks[t].pc = "stats" /\ settleStats(t, response)

PlainReport ==
    \E t \in DOMAIN tasks : \E response \in PlainResponses("report") :
        tasks[t].pc = "report" /\ settleReport(t, response)

\* the page with its requests and a patient user at the buttons, the
\* tabs and the table
NextFrame ==
    \/ AppInit
    \/ PatientSync
    \/ PatientCompare
    \/ PlainSync
    \/ PlainSnapshots
    \/ PlainStats
    \/ PlainReport
    \/ PatientTheme
    \/ TabClick
    \/ UserSearch
    \/ UserSort
    \/ UserCategory

SpecFrame == Init /\ [][NextFrame]_vars

\* the page with its requests and the user at the report form
NextForm ==
    \/ AppInit
    \/ CompareClick
    \/ PlainSnapshots
    \/ PlainStats
    \/ PlainReport
    \/ ControlInput
    \/ DownloadClick

SpecForm == Init /\ [][NextForm]_vars

\* the page with its requests, the user at the compare and download
\* buttons, and the timers of the toasts
NextToast ==
    \/ AppInit
    \/ CompareClick
    \/ PlainSnapshots
    \/ PlainStats
    \/ PlainReport
    \/ DownloadClick
    \/ TimerFires

SpecToast == Init /\ [][NextToast]_vars

ThemeClick == themeClick

\* the page with init, the sync and theme buttons, the tabs and reloads
NextTheme ==
    \/ AppInit
    \/ PlainSnapshots
    \/ PlainStats
    \/ PlainReport
    \/ PatientSync
    \/ PlainSync
    \/ ThemeClick
    \/ TabClick
    \/ Reload

SpecTheme == Init /\ [][NextTheme]_vars

\* GET /api/snapshots is answered with a list of any length up to
\* MaxSnapshots
SelectSnapshots ==
    \E t \in DOMAIN tasks : \E n \in 0..MaxSnapshots :
        /\ tasks[t].pc = "snapshots"
        /\ settleSnapshots(
               t, Response(200, Json(Null, Null,
                                     Some(Array(SnapshotList(n))))))

\* the page with init and the sync button, and a backend whose snapshot
\* lists have every length
NextSelect ==
    \/ AppInit
    \/ PatientSync
    \/ PlainSync
    \/ SelectSnapshots
    \/ PlainStats
    \/ PlainReport

SpecSelect == Init /\ [][NextSelect]_vars

(***************************************************************************)
(* Properties.                                                             *)
(***************************************************************************)
Reverse(s) == [i \in 1..Len(s) |-> s[Len(s) + 1 - i]]

\* the position of a record in a list that holds it once
IndexIn(list, r) == CHOOSE i \in DOMAIN list : list[i] = r

\* the smallest k with k * ITEMS_PER_PAGE >= n
CeilPages(n) ==
    CHOOSE k \in 0..n : k * ITEMS_PER_PAGE >= n /\ (k - 1) * ITEMS_PER_PAGE < n

\* name contains text, ignoring case
ContainsIgnoringCase(name, text) ==
    name # Null /\ Includes(ToLowerCase(name[1]), ToLowerCase(text))

\* the category of r, lower-cased, is an element of State.activeFilters
CategoryActive(r) ==
    /\ r.category # Null
    /\ \E i \in DOMAIN activeFilters :
           activeFilters[i] = ToLowerCase(r.category[1])

\* C1: filteredProtocols holds only records of allProtocols, none of them
\* twice and so never more than allProtocols has, and each has its
\* lower-cased category in activeFilters and a name that contains the
\* search text (compared ignoring case).
C1_FilteredSubset ==
    /\ \A i \in DOMAIN filteredProtocols :
           /\ \E j \in DOMAIN allProtocols :
                  allProtocols[j] = filteredProtocols[i]
           /\ CategoryActive(filteredProtocols[i])
           /\ ContainsIgnoringCase(filteredProtocols[i].name, searchInput)
    /\ \A i, j \in DOMAIN filteredProtocols :
           i # j => filteredProtocols[i] # filteredProtocols[j]
    /\ Len(filteredProtocols) <= Len(allProtocols)

\* a search text is set, one record passed the filters and another did not
C1_Witness ==
    /\ searchInput # << >>
    /\ Len(filteredProtocols) >= 1
    /\ Len(filteredProtocols) < Len(allProtocols)

\* C2: a record of allProtocols whose category is active is in
\* filteredProtocols if and only if its name contains the text of the search
\* input, compared ignoring case, whichever handler ran the filter.
C2_CaseInsensitiveSearch ==
    \A i \in DOMAIN allProtocols :
        CategoryActive(allProtocols[i]) =>
            ((\E j \in DOMAIN filteredProtocols :
                  filteredProtocols[j] = allProtocols[i])
             <=> ContainsIgnoringCase(allProtocols[i].name, searchInput))

\* a before-or-equal b by key: a missing value is below every value, numbers
\* compare as numbers and strings by locale comparison
KeyLeq(a, b, key) ==
    IF a[key] = Null THEN TRUE
    ELSE IF b[key] = Null THEN FALSE
    ELSE IF key \in {"name", "category"}
         THEN LocaleCompare(a[key][1], b[key][1]) <= 0
         ELSE a[key][1] <= b[key][1]

\* C3: filteredProtocols is ordered by State.sort.key in the direction
\* State.sort.order, a missing value counting as negative infinity.
C3_SortedByKey ==
    \A i \in 1..(Len(filteredProtocols) - 1) :
        IF sort.order = "asc"
        THEN KeyLeq(filteredProtocols[i], filteredProtocols[i + 1], sort.key)
        ELSE KeyLeq(filteredProtocols[i + 1], filteredProtocols[i], sort.key)

\* ascending order on a numeric key, with a record that lacks the key before
\* a record that has it
C3_Witness ==
    /\ sort.order = "asc"
    /\ sort.key \in {"diff", "pct"}
    /\ Len(filteredProtocols) >= 2
    /\ filteredProtocols[1][sort.key] = Null
    /\ filteredProtocols[Len(filteredProtocols)][sort.key] # Null

\* equal values of the key: both missing, equal numbers, or strings that
\* the locale comparison does not tell apart
KeyEqual(a, b, key) ==
    IF a[key] = Null \/ b[key] = Null THEN a[key] = b[key]
    ELSE IF key \in {"name", "category"}
         THEN LocaleCompare(a[key][1], b[key][1]) = 0
         ELSE a[key][1] = b[key][1]

\* C4: two records of filteredProtocols with equal values of the sort key
\* are in the relative order they have in allProtocols, in both directions.
C4_StableSort ==
    \A i, j \in DOMAIN filteredProtocols :
        (i < j /\ KeyEqual(filteredProtocols[i], filteredProtocols[j],
                           sort.key))
            => IndexIn(allProtocols, filteredProtocols[i])
                   < IndexIn(allProtocols, filteredProtocols[j])

\* descending order, and two records that both lack the sort key
C4_Witness ==
    /\ sort.order = "desc"
    /\ \E i, j \in DOMAIN filteredProtocols :
           /\ i < j
           /\ filteredProtocols[i][sort.key] = Null
           /\ filteredProtocols[j][sort.key] = Null

\* C5: two sortProtocols calls in a row with the current sort key restore
\* State.sort and yield the filteredProtocols there was before them.
C5_ToggleRoundTrip ==
    LET once == NextSort(sort, sort.key)
        twice == NextSort(once, once.key)
    IN  /\ twice = sort
        /\ Sort(Filter(allProtocols, activeFilters, DefaultSearchTerm),
                twice.key, twice.order) = filteredProtocols

\* a step of sortProtocols with the current sort key
IsToggle == sort'.key = sort.key /\ sort'.order # sort.order

NoEqualKeys(list, key) ==
    \A i, j \in DOMAIN list : i # j => ~KeyEqual(list[i], list[j], key)

C7_PageInBounds ==
    /\ 1 <= currentPage
    /\ currentPage <= Max({1, CeilPages(Len(filteredProtocols))})
    /\ (currentPage - 1) * ITEMS_PER_PAGE <= Len(filteredProtocols)

\* the last page of a table of several pages is shown
C7_Witness ==
    /\ currentPage > 1
    /\ currentPage = CeilPages(Len(filteredProtocols))

\* C8: a handler that ends with applyAllFilters (category toggle, search
\* input, sort click, report load) leaves currentPage equal to 1.
C8_PageResets == last.applied => currentPage = 1

\* such a handler ran while a later page was shown
C8_Witness == last.applied /\ last.page > 1 /\ currentPage = 1

\* the records of list at positions (k-1)*25 + 1 .. min(k*25, length)
PageOf(list, k) ==
    [i \in 1..(Min({k * ITEMS_PER_PAGE, Len(list)}) - (k - 1) * ITEMS_PER_PAGE)
        |-> list[(k - 1) * ITEMS_PER_PAGE + i]]

RECURSIVE ConcatPages(_, _)
ConcatPages(list, k) ==
    IF k = 0 THEN << >>
    ELSE ConcatPages(list, k - 1) \o PageItems(list, k)

\* C9: the table shows the records of the current page, at most 25, every
\* page k is the run of records at positions (k-1)*25 + 1 .. min(k*25,
\* length), and the pages in order make up filteredProtocols.
C9_PagesPartition ==
    /\ tableRows = PageOf(filteredProtocols, currentPage)
    /\ Len(tableRows) <= ITEMS_PER_PAGE
    /\ \A k \in 1..CeilPages(Len(filteredProtocols)) :
           PageItems(filteredProtocols, k) = PageOf(filteredProtocols, k)
    /\ ConcatPages(filteredProtocols, CeilPages(Len(filteredProtocols)))
           = filteredProtocols

\* a second page that is not full is shown
C9_Witness ==
    /\ currentPage = 2
    /\ Len(tableRows) >= 1
    /\ Len(tableRows) < ITEMS_PER_PAGE

\* C10: once updateCategoryFilter has written it, the stored text parses to
\* the elements of State.activeFilters, and building State from it gives
\* that same set, the empty set included.
C10_FiltersRoundTrip ==
    storedFilters # Null =>
        /\ Range(Parse(storedFilters[1])) = Range(activeFilters)
        /\ Range(InitialFilters(storedFilters)) = Range(activeFilters)

\* the page has been loaded again with an empty array stored
C10_Witness ==
    /\ storedFilters = Some(Stringify(<< >>))
    /\ activeFilters = << >>
    /\ ~last.applied
    /\ allProtocols = << >>

\* the error toasts among the toasts of a call
ErrorToasts(toasts) == SelectSeq(toasts, LAMBDA t : t.type = "error")

\* the member of an error body that carries its message: error for a GET,
\* message for a POST, as in the fallback objects of API.get and API.post
BodyMessage(method, body) ==
    IF method = "GET" THEN body.error ELSE body.message

\* C11: a call that got a response with a non-2xx status showed exactly one
\* error toast and rejected; the text of the toast is the message of the
\* parsed body when the body is JSON and has one, and the fallback text with
\* the status when the body is not JSON.  A call that got a 2xx response
\* with a JSON body returned that body and showed no error toast.
C11_ResponseToast ==
    (lastCall.method # "none" /\ lastCall.response.kind = "http") =>
        LET r == lastCall.response
            out == lastCall.outcome
            errors == ErrorToasts(out.toasts)
            message == BodyMessage(lastCall.method, r.body)
        IN  IF r.status < 200 \/ r.status > 299
            THEN /\ Len(errors) = 1
                 /\ out.result = "rejected"
                 /\ ~r.body.json =>
                        errors[1].text = "Blad serwera: " \o ToString(r.status)
                 /\ (r.body.json /\ message # Null) =>
                        errors[1].text = message[1]
            ELSE r.body.json =>
                     /\ out.result = "resolved"
                     /\ errors = << >>
                     /\ out.value = IF lastCall.method = "GET" THEN r.body.data
                                    ELSE Some(r.body)

\* a GET was answered with status 500 and a JSON body that has an error
\* member, and the toast on the page shows it
C11_Witness ==
    /\ lastCall.method = "GET"
    /\ lastCall.response.kind = "http"
    /\ lastCall.response.status = 500
    /\ lastCall.response.body.json
    /\ lastCall.response.body.error # Null
    /\ toast = Some(Toast("error", lastCall.response.body.error[1]))

\* C12: a call that rejected, whatever the cause, showed an error toast
\* with the message of the error it rejected with.
C12_EveryFailureToast ==
    (lastCall.method # "none" /\ lastCall.outcome.result = "rejected") =>
        \E i \in DOMAIN lastCall.outcome.toasts :
            lastCall.outcome.toasts[i]
                = Toast("error", lastCall.outcome.error)

Endpoints == {"sync", "snapshots", "stats", "report"}

NoDuplicates(seq) == \A i, j \in DOMAIN seq : i # j => seq[i] # seq[j]

\* C13: a run never fetches the same endpoint twice, and the step in which
\* a request of a run fails ends the run and issues no fetch, in that run
\* or in another.
C13_NoRetry ==
    [][\A t \in DOMAIN tasks :
          /\ NoDuplicates(tasks'[t].fetched)
          /\ (/\ tasks[t].pc \in Endpoints
              /\ tasks'[t] # tasks[t]
              /\ lastCall'.outcome.result = "rejected") =>
                 /\ tasks'[t] = Free
                 /\ \A u \in DOMAIN tasks : u # t => tasks'[u] = tasks[u]]_vars

\* the request of a run of syncData has failed, the run is over, and
\* another run awaits its request
C13_Witness ==
    /\ lastCall.endpoint = "stats"
    /\ lastCall.outcome.result = "rejected"
    /\ \A t \in DOMAIN tasks : tasks[t].op # "syncData"
    /\ \E t \in DOMAIN tasks : tasks[t].op = "init" /\ tasks[t].pc = "report"
    /\ syncBtn = [disabled |-> FALSE]
    /\ statsKpi # Null

\* the requests of a run of op, in the order of the awaits
Order(op) ==
    CASE op = "init" -> <<"snapshots", "stats", "report">>
      [] op = "syncData" -> <<"sync", "snapshots", "stats", "report">>
      [] op = "loadReport" -> <<"report">>

IsPrefix(s, t) == Len(s) <= Len(t) /\ SubSeq(t, 1, Len(s)) = s

\* C14: the requests a run has issued are the first ones of the order of
\* its operation, each once; the request it awaits is the last one it
\* issued; and it issues a request, after its first, only in the step in
\* which the one before resolved.
C14_RequestOrder ==
    [][\A t \in DOMAIN tasks' :
          /\ tasks'[t] # Free =>
                 IsPrefix(tasks'[t].fetched, Order(tasks'[t].op))
          /\ tasks'[t].pc \in Endpoints =>
                 tasks'[t].pc = tasks'[t].fetched[Len(tasks'[t].fetched)]
          /\ (/\ tasks[t].pc \in Endpoints
              /\ tasks'[t].pc \in Endpoints
              /\ tasks'[t].fetched # tasks[t].fetched) =>
                 /\ tasks[t].pc = tasks[t].fetched[Len(tasks[t].fetched)]
                 /\ lastCall'.endpoint = tasks[t].pc
                 /\ lastCall'.outcome.result = "resolved"
                 /\ \A u \in DOMAIN tasks :
                        u # t => tasks'[u] = tasks[u]]_vars

\* a run of syncData has issued its four requests and a run of init its
\* three
C14_Witness ==
    \E t, u \in DOMAIN tasks :
        /\ tasks[t].op = "syncData"
        /\ Len(tasks[t].fetched) = 4
        /\ tasks[u].op = "init"
        /\ Len(tasks[u].fetched) = 3

\* the run of init has ended, well or not
InitEnded == bound /\ \A t \in DOMAIN tasks : tasks[t].op # "init"

\* C15: when every request settles, init ends; from then on the loader is
\* hidden, the app content is shown and the handlers are bound, whatever
\* the requests of init were answered with; and whenever no request is in
\* flight after that, the sync and compare buttons are enabled.
C15_InitEnds ==
    /\ <>InitEnded
    /\ [](InitEnded => (~loading /\ bound))
    /\ []((InitEnded /\ Settled) =>
              (~syncBtn.disabled /\ ~compareBtn.disabled))

\* init has ended without snapshots and statistics, and a report
\* requested with the compare button afterwards has been loaded
C15_Witness ==
    /\ InitEnded
    /\ snapshots = << >>
    /\ statsKpi = Null
    /\ issued = 1
    /\ newest.order = 1
    /\ reportData # Null
    /\ ~loading

\* C16: the step in which the GET /api/report request of a run fails, or is
\* answered with the JSON text null, leaves State.reportData,
\* State.allProtocols, State.filteredProtocols, State.categories,
\* State.currentPage and State.sort as they were, and the rendered report
\* and table with them.
C16_FailedLoadKeepsState ==
    [][\A t \in DOMAIN tasks :
          (/\ tasks[t].pc = "report"
           /\ tasks'[t].pc # "report"
           /\ \/ lastCall'.outcome.result = "rejected"
              \/ lastCall'.outcome.value = Null)
              => UNCHANGED <<reportData, allProtocols, filteredProtocols,
                             categories, currentPage, sort, reportDates,
                             tableRows>>]_vars

\* a report is loaded, and the request of a later run has been answered
\* with the JSON text null
C16_Witness ==
    /\ reportData # Null
    /\ lastCall.endpoint = "report"
    /\ lastCall.outcome.result = "resolved"
    /\ lastCall.outcome.value = Null
    /\ newest.order > 0
    /\ issued > newest.order
    /\ Settled

Values(query, key) ==
    LET Has(pair) == pair[1] = key
        pairs == SelectSeq(query, Has)
    IN  [i \in DOMAIN pairs |-> pairs[i][2]]

\* the query has start_file, end_file, min_tvl and top_n of the controls,
\* each once, min_tvl "0" for an empty input, max_tvl when and only when
\* that input is not empty, and nothing else
Carries(query, ctl) ==
    /\ Values(query, "start_file") = <<ctl.start>>
    /\ Values(query, "end_file") = <<ctl.end>>
    /\ Values(query, "min_tvl")
           = <<IF ctl.minTvl = "" THEN "0" ELSE ctl.minTvl>>
    /\ Values(query, "top_n") = <<ctl.topN>>
    /\ Values(query, "max_tvl")
           = IF ctl.maxTvl = "" THEN << >> ELSE <<ctl.maxTvl>>
    /\ \A i \in DOMAIN query :
           query[i][1] \in {"start_file", "end_file", "min_tvl", "top_n",
                            "max_tvl"}

C19_NewestWins ==
    (Settled /\ newest.order > 0) =>
        /\ reportData = newest.data
        /\ allProtocols = newest.data[1].allProtocols
        /\ reportDates = Some(newest.data[1].reportMetadata)

\* the runs whose loadReport awaits GET /api/report
ReportsInFlight == {t \in DOMAIN tasks : tasks[t].pc = "report"}

\* C20: while a GET /api/report request is in flight the compare button is
\* disabled and shows the generating label; at most one such request is in
\* flight; and while none is, the button is enabled and shows its normal
\* label.
C20_ButtonGuardsReport ==
    /\ ReportsInFlight # {} =>
           compareBtn = [disabled |-> TRUE, label |-> GeneratingLabel]
    /\ Cardinality(ReportsInFlight) <= 1
    /\ ReportsInFlight = {} =>
           compareBtn = [disabled |-> FALSE, label |-> CompareLabel]

\* the runs of op in flight
Runs(op) == {t \in DOMAIN tasks : tasks[t].op = op}

\* C21: the sync button is disabled while a run of syncData is in flight,
\* from its POST to its report refresh, and enabled while none is; at most
\* one run of syncData is in flight, and none while the run of init is.
C21_SyncButtonGuardsRun ==
    /\ Runs("syncData") # {} => syncBtn.disabled
    /\ Runs("syncData") = {} => ~syncBtn.disabled
    /\ Cardinality(Runs("syncData")) <= 1
    /\ Runs("syncData") # {} => Runs("init") = {}

\* C22: a step that issues GET /api/report gives it a start_file and an
\* end_file that are not empty; and the step in which GET /api/snapshots of
\* init is answered with an empty list ends init with the 'no data' error
\* toast, without a request for the statistics or the report.
C22_ReportNeedsSnapshots ==
    [][\A t \in DOMAIN tasks :
          /\ (tasks[t].pc # "report" /\ tasks'[t].pc = "report") =>
                 /\ Values(tasks'[t].query, "start_file") # <<"">>
                 /\ Values(tasks'[t].query, "end_file") # <<"">>
          /\ (/\ tasks[t].op = "init"
              /\ tasks[t].pc = "snapshots"
              /\ tasks'[t] # tasks[t]
              /\ lastCall'.outcome.result = "resolved"
              /\ lastCall'.outcome.value = Some(Array(<< >>))) =>
                 /\ tasks'[t] = Free
                 /\ toast' = Some(Toast("error", NoDataText))]_vars

\* the indices of the options of a select that have the value; the options
\* are those of the list, in its order, and the first has index 0
Indices(list, value) ==
    {i - 1 : i \in {j \in DOMAIN list : list[j].filename = value}}

\* C23: the step in which GET /api/snapshots is answered with a list of n
\* snapshots, newest first, leaves the end select at index 0 and the start
\* select at index 7 when n > 7 and at index n - 1 otherwise, when n >= 1:
\* both indices are within the list and the start index is not less than
\* the end index; with an empty list it leaves both selects as they were.
C23_SelectedSnapshots ==
    [][\A t \in DOMAIN tasks :
          (/\ tasks[t].pc = "snapshots"
           /\ tasks'[t] # tasks[t]
           /\ lastCall'.outcome.result = "resolved") =>
              LET list == lastCall'.outcome.value[1].array
                  n == Len(list)
                  startIndex == IF n > 7 THEN 7 ELSE n - 1
              IN  IF n >= 1
                  THEN /\ Indices(list, controls'.end) = {0}
                       /\ Indices(list, controls'.start) = {startIndex}
                       /\ startIndex \in 0..(n - 1)
                       /\ startIndex >= 0
                  ELSE /\ controls'.start = controls.start
                       /\ controls'.end = controls.end]_vars

\* a list of more than eight snapshots has been rendered: the eighth is the
\* start, the first the end; and an empty list that arrived later has left
\* the selects alone
C23_Witness ==
    /\ controls.start = "f8"
    /\ controls.end = "f1"
    /\ snapshots = << >>
    /\ lastCall.endpoint = "snapshots"
    /\ lastCall.outcome.result = "resolved"

\* the sort class of the header of the key and direction of the sort
SortClass(srt) == IF srt.order = "asc" THEN "sort-asc" ELSE "sort-desc"

\* C24: State.sort starts as key 'tvl', order 'desc'; a step that changes it
\* either moves to another key with order 'desc' or keeps the key and
\* flips the order; and in every state the order is 'asc' or 'desc', the
\* header of the current key has the class of the current direction and no
\* other header has a sort class.
C24_SortMachine ==
    /\ sort = [key |-> "tvl", order |-> "desc"]
    /\ [][sort' # sort =>
              \/ sort'.key # sort.key /\ sort'.order = "desc"
              \/ /\ sort'.key = sort.key
                 /\ sort'.order = (IF sort.order = "asc" THEN "desc"
                                   ELSE "asc")]_vars
    /\ [](/\ sort.order \in {"asc", "desc"}
          /\ sort.key \in SortKeys
          /\ \A key \in SortKeys :
                 sortable[key] = (IF key = sort.key THEN SortClass(sort)
                                  ELSE ""))

\* the lower-cased categories of the records of the list that have one
CategoriesOf(list) ==
    {ToLowerCase(list[i].category[1]) :
        i \in {j \in DOMAIN list : Truthy(list[j].category)}}

\* C25: State.categories has the lower-cased category of every record of
\* State.allProtocols that has one; no step takes a category out of it; and
\* the category checkboxes are those of State.categories.
C25_CategoriesGrow ==
    /\ [](CategoriesOf(allProtocols) \subseteq categories)
    /\ [][categories \subseteq categories']_vars
    /\ [](reportData # Null => DOMAIN checkboxes = categories)

\* a report is loaded, and there is a checkbox of a category that none of
\* its records has
C25_Witness ==
    /\ reportData # Null
    /\ allProtocols # << >>
    /\ DOMAIN checkboxes \ CategoriesOf(allProtocols) # {}

\* C26: no record of State.allProtocols whose category or name is absent or
\* the empty string is in State.filteredProtocols or in a row of the table.
C26_IncompleteNeverListed ==
    \A i \in DOMAIN allProtocols :
        (~Truthy(allProtocols[i].category) \/ ~Truthy(allProtocols[i].name))
            => /\ \A j \in DOMAIN filteredProtocols :
                      filteredProtocols[j] # allProtocols[i]
               /\ \A j \in DOMAIN tableRows :
                      tableRows[j] # allProtocols[i]

\* the search text is empty and every category is checked; the report has a
\* record without a name in a checked category, and the table lists
\* another record
C26_Witness ==
    /\ searchInput = << >>
    /\ \A category \in DOMAIN checkboxes : checkboxes[category]
    /\ filteredProtocols # << >>
    /\ \E i \in DOMAIN allProtocols :
           /\ ~Truthy(allProtocols[i].name)
           /\ Truthy(allProtocols[i].category)
           /\ ToLowerCase(allProtocols[i].category[1])
                  \in Range(activeFilters)

\* C27: a click on a page button sets State.currentPage to the page of the
\* button and leaves State.filteredProtocols with its order,
\* State.allProtocols, State.sort, State.activeFilters, State.categories,
\* State.reportData and the stored filters as they were.  (The step of a
\* page click is the one after which a report is loaded and the table was
\* last written without applyAllFilters.)
C27_PageClickFrame ==
    [][(~last'.applied /\ reportData' # Null) =>
          /\ currentPage' \in pageButtons
          /\ UNCHANGED <<filteredProtocols, allProtocols, sort, activeFilters,
                         categories, reportData, storedFilters>>]_vars

\* a page button was clicked on page 1 of a table that is filtered and
\* sorted by name: page 2 is shown
C27_Witness ==
    /\ ~last.applied
    /\ last.page = 1
    /\ currentPage = 2
    /\ sort.key = "name"
    /\ filteredProtocols # << >>
    /\ Len(filteredProtocols) < Len(allProtocols)

\* C28: the step that hides the toast is the firing of the timer of the
\* showToast call that displayed it: while that timer is pending the toast
\* stays visible, and no timer of an earlier call hides it.
C28_OwnTimerHides ==
    /\ [](toastEl.timer => ~toastEl.hidden)
    /\ [][(~toastEl.hidden /\ toastEl'.hidden) =>
              (toastEl.timer /\ ~toastEl'.timer /\ ~toastEl.earlier)]_vars

\* the theme the document shows
AppliedTheme == IF dark THEN "dark" ELSE "light"

\* C29: once App.init has applied the theme, the applied theme is the
\* stored one, or 'dark' when nothing is stored, and exactly one of the sun
\* and moon icons is visible: the sun in the light theme, the moon in the
\* dark one.  A click on the theme button switches the applied theme and
\* stores the new one, and a reload leaves the stored theme, so the page
\* loaded again shows the same theme.
C29_ThemePersists ==
    /\ [](bound =>
              (/\ AppliedTheme = (IF storedTheme = Null THEN "dark"
                                  ELSE storedTheme[1])
               /\ icons.sunHidden # icons.moonHidden
               /\ icons.moonHidden = ~dark))
    /\ [][/\ (bound /\ bound' /\ (dark' # dark \/ storedTheme' # storedTheme))
              => (dark' = ~dark /\ storedTheme' = Some(AppliedTheme'))
          /\ (~bound') => (storedTheme' = storedTheme)]_vars

\* the light theme was stored by a click, the page was loaded again and
\* App.init has applied the light theme
C29_Witness ==
    /\ bound
    /\ started = 1
    /\ storedTheme = Some("light")
    /\ ~dark
    /\ ~icons.sunHidden
    /\ lastCall = NoCall

=============================================================================
